---- MODULE Spec2Model ----
(***************************************************************************)
(* Model of zotero-center-pdf: the Plugin class that re-centers the        *)
(* current page of a Zotero reader after navigation.                       *)
(*                                                                         *)
(* The repository holds two variants of the class:                         *)
(*   "listener"  src/src/plugin.ts     click/change listeners + setTimeout *)
(*   "override"  src/unnamed/part_000  replaced navigate* functions, and   *)
(*                                     the isPDFReader filter              *)
(* The variable `variant` says which of the two is running.                *)
(*                                                                         *)
(* Lengths are kept in half layout units (names ending in 2 hold twice the *)
(* value), so that the `* 0.5` of getScrollTarget is exact.                *)
(***************************************************************************)
EXTENDS Integers, Sequences, FiniteSets, TLC

\* ------------------------------------------------------------------ bounds
NumSurfaces == 2
MaxTasks == 2
MaxRegistrations == 2
MaxTimers == 2
MaxPages == 2

\* --------------------------------------------------------------- constants
Tolerance == 5

Surfaces == 1..NumSurfaces
Variants == {"listener", "override"}
ReaderTypes == {"pdf", "epub"}
Controls == {"previous", "next", "back", "pageInput"}
OverrideOps == {"navigateBack", "navigateToPreviousPage", "navigateToNextPage",
                "navigateToFirstPage", "navigateToLastPage"}
NavKinds == {"next", "previous", "first", "last", "back", "pageNumber"}

VARIABLES
    variant,        \* which of the two source variants runs
    rtype,          \* reader.type of each Surface
    hostListeners,  \* entries of Zotero.Reader's listener list holding onRenderToolbar
    usable,         \* state of the promise of reader._waitForReader()
    init,           \* state of reader._initPromise
    tasks,          \* the addListeners calls made so far (async activations)
    listeners,      \* listeners[s][c]: handlers added to control c, by task
    overrides,      \* overrides[s][op]: task whose wrapper replaces op, 0 = original
    timers,         \* setTimeout(.., 0) callbacks waiting, in order, by task
    viewer,         \* viewer[s]: the #viewerContainer element of Surface s
    hostLog,        \* the latest message logged by startup/shutdown
    lastNav,        \* the latest navigation action and what it triggered
    lastCenter      \* the latest centerCurrentPage call and what it did

vars == <<variant, rtype, hostListeners, usable, init, tasks, listeners,
          overrides, timers, viewer, hostLog, lastNav, lastCenter>>

\* ---------------------------------------------------------------- geometry
Abs(x) == IF x < 0 THEN -x ELSE x

Max(a, b) == IF a > b THEN a ELSE b

Min(a, b) == IF a < b THEN a ELSE b

\* for (const p of pages) if (Math.abs(p.offsetTop - viewer.scrollTop) < 5) return p
RECURSIVE pageLoop(_, _, _)
pageLoop(pages, scrollTop2, i) ==
    IF i > Len(pages) THEN 0
    ELSE IF Abs(2 * pages[i].offsetTop - scrollTop2) < 2 * Tolerance THEN i
    ELSE pageLoop(pages, scrollTop2, i + 1)

\* Mutant: the loop keeps going and returns the last page within the tolerance.
getCurrentPage_Last(v) ==
    LET hits == {i \in 1..Len(v.pages) :
                    Abs(2 * v.pages[i].offsetTop - v.scrollTop2) < 2 * Tolerance}
    IN  IF hits = {} THEN 0 ELSE CHOOSE i \in hits : \A j \in hits : j <= i

\* Index (in document order) of the page returned, 0 for null.
getCurrentPage(v) == pageLoop(v.pages, v.scrollTop2, 1)

\* Mutant: a negative slack (page smaller than the viewport) is taken as 0.
getScrollTarget_NoNegativeSlack(v, page) ==
    [top2  |-> 2 * page.offsetTop + Max(0, page.clientHeight - v.clientHeight),
     left2 |-> 2 * page.offsetLeft + Max(0, page.clientWidth - v.clientWidth)]

getScrollTarget(v, page) ==
    LET xOffset2 == page.clientWidth - v.clientWidth
        yOffset2 == page.clientHeight - v.clientHeight
    IN  [top2  |-> 2 * page.offsetTop + yOffset2,
         left2 |-> 2 * page.offsetLeft + xOffset2]

RECURSIVE extent(_, _, _)
extent(pages, i, vertical) ==
    IF i > Len(pages) THEN 0
    ELSE Max(IF vertical THEN pages[i].offsetTop + pages[i].clientHeight
                         ELSE pages[i].offsetLeft + pages[i].clientWidth,
             extent(pages, i + 1, vertical))

\* Element.scrollTo({top, left}): the position is clamped to the scrollable range.
scrollTo(v, target) ==
    LET maxTop2  == 2 * Max(0, extent(v.pages, 1, TRUE) - v.clientHeight)
        maxLeft2 == 2 * Max(0, extent(v.pages, 1, FALSE) - v.clientWidth)
    IN  [v EXCEPT !.scrollTop2  = Max(0, Min(target.top2, maxTop2)),
                  !.scrollLeft2 = Max(0, Min(target.left2, maxLeft2))]

NoCenter == [viewer |-> 0, page |-> 0, log |-> "", scrolls |-> 0,
             target |-> [top2 |-> 0, left2 |-> 0],
             before |-> [top2 |-> 0, left2 |-> 0],
             after  |-> [top2 |-> 0, left2 |-> 0]]

\* Mutant: with no current page the first page is centered instead.
centerCurrentPage_Fallback(v) ==
    LET page == getCurrentPage(v)
    IN  IF page = 0
        THEN IF v.pages = <<>> THEN v ELSE scrollTo(v, getScrollTarget(v, v.pages[1]))
        ELSE scrollTo(v, getScrollTarget(v, v.pages[page]))

\* centerCurrentPage(viewer): the element after the call.
centerCurrentPage(v) ==
    LET page == getCurrentPage(v)
    IN  IF page = 0 THEN v
        ELSE scrollTo(v, getScrollTarget(v, v.pages[page]))

\* What the call did: the page found, the message logged, the scrollTo calls
\* made and their argument, the scroll position before and after.
centerRecord(s, v) ==
    LET page == getCurrentPage(v)
        w == centerCurrentPage(v)
    IN  [viewer |-> s,
         page   |-> page,
         log    |-> IF page = 0 THEN "couldn't identify current page"
                                ELSE "scrolling to",
         scrolls |-> IF page = 0 THEN 0 ELSE 1,
         target |-> IF page = 0 THEN [top2 |-> 0, left2 |-> 0]
                                ELSE getScrollTarget(v, v.pages[page]),
         before |-> [top2 |-> v.scrollTop2, left2 |-> v.scrollLeft2],
         after  |-> [top2 |-> w.scrollTop2, left2 |-> w.scrollLeft2]]


\* ------------------------------------------------------------- the Surfaces
\* The viewer of every Surface in the protocol specification: one page,
\* taller than the viewport, so that centering it moves the viewer.
ProtoPage(top) == [offsetTop |-> top, offsetLeft |-> 0, clientWidth |-> 8, clientHeight |-> 20]

ProtoViewer == [clientWidth |-> 8, clientHeight |-> 6, scrollTop2 |-> 0, scrollLeft2 |-> 0,
                pages |-> <<ProtoPage(0)>>]

\* reader.type of the Surfaces: all pdf readers, or all but the first an epub reader.
ReaderTypings == {[s \in Surfaces |-> "pdf"],
                  [s \in Surfaces |-> IF s = 1 THEN "pdf" ELSE "epub"]}

\* The controls the toolbar may hold when they are looked up.
ControlSets == {Controls, Controls \ {"pageInput"}}

NoNav == [s |-> 0, kind |-> "", sync |-> 0, sched |-> 0]

Init ==
    /\ variant \in Variants
    /\ rtype \in ReaderTypings
    /\ hostListeners = 0
    /\ usable = [s \in Surfaces |-> "pending"]
    /\ init = [s \in Surfaces |-> "pending"]
    /\ tasks = <<>>
    /\ listeners = [s \in Surfaces |-> [c \in Controls |-> <<>>]]
    /\ overrides = [s \in Surfaces |-> [op \in OverrideOps |-> 0]]
    /\ timers = <<>>
    /\ viewer = [s \in Surfaces |-> ProtoViewer]
    /\ hostLog = ""
    /\ lastNav = NoNav
    /\ lastCenter = NoCenter

\* ------------------------------------------------------------ the lifecycle
\* The host's side of the two calls (Zotero.Reader keeps a list of listeners):
\* registerEventListener pushes an entry on the list, whether or not the same
\* handler is already there; unregisterEventListener drops every entry with
\* this type and handler. hostListeners counts the entries of onRenderToolbar.
registerEventListener(n) == n + 1

unregisterEventListener(n) == 0

Startup ==
    /\ hostListeners < MaxRegistrations
    /\ hostLog' = "registering renderToolbar listener"
    /\ hostListeners' = registerEventListener(hostListeners)
    /\ UNCHANGED <<variant, rtype, usable, init, tasks, listeners, overrides,
                   timers, viewer, lastNav, lastCenter>>

\* Mutant: shutdown also takes the installed handlers and wrappers away.
Shutdown_Detach ==
    /\ hostLog' = "unregistering renderToolbar listener"
    /\ hostListeners' = unregisterEventListener(hostListeners)
    /\ listeners' = [s \in Surfaces |-> [c \in Controls |-> <<>>]]
    /\ overrides' = [s \in Surfaces |-> [op \in OverrideOps |-> 0]]
    /\ UNCHANGED <<variant, rtype, usable, init, tasks,
                   timers, viewer, lastNav, lastCenter>>

Shutdown ==
    /\ hostLog' = "unregistering renderToolbar listener"
    /\ hostListeners' = unregisterEventListener(hostListeners)
    /\ UNCHANGED <<variant, rtype, usable, init, tasks, listeners, overrides,
                   timers, viewer, lastNav, lastCenter>>

\* --------------------------------------------------- the attachment sequence
isPDFReader(s) == rtype[s] = "pdf"

\* addListeners up to its first await: the log line and the _waitForReader() call.
NewTask(s) ==
    [s |-> s, pc |-> "waitReader", outcome |-> "",
     trace |-> <<"await_usable">>,
     logs |-> <<"adding page listeners">>,
     controls |-> {}]

\* onRenderToolbar: the tasks one call of the handler starts.
onRenderToolbar(s) ==
    IF variant = "override" /\ ~isPDFReader(s) THEN <<>> ELSE <<NewTask(s)>>

RECURSIVE Repeat(_, _)
Repeat(sq, n) == IF n = 0 THEN <<>> ELSE sq \o Repeat(sq, n - 1)

\* The host raises renderToolbar for the reader of Surface s: every registered
\* entry's handler is called.
RenderToolbar(s) ==
    /\ hostListeners > 0
    /\ Len(tasks) + hostListeners <= MaxTasks
    /\ tasks' = tasks \o Repeat(onRenderToolbar(s), hostListeners)
    /\ UNCHANGED <<variant, rtype, hostListeners, usable, init, listeners,
                   overrides, timers, viewer, hostLog, lastNav, lastCenter>>

Throw(task) == [task EXCEPT !.pc = "rejected", !.outcome = "threw"]

Return(task, outcome) == [task EXCEPT !.pc = "done", !.outcome = outcome]

Log(task, msg) == [task EXCEPT !.logs = @ \o <<msg>>]

Did(task, steps) == [task EXCEPT !.trace = @ \o steps]

\* Plugin.getViewerContainer(iframe): the executor's synchronous part.
\* container: "found"    #viewerContainer is there: resolve(viewer)
\*            "loading"  it is not, and the frame's load event is still to come
\*            "loaded"   it is not, and the frame's load event has already fired
getViewerContainer(task, container) ==
    IF container = "found"
    THEN [Did(task, <<"lookup_viewer", "viewer_found", "await_viewer">>)
             EXCEPT !.pc = "viewerResolved"]
    ELSE [Did(task, <<"lookup_viewer", "viewer_missing", "await_viewer">>)
             EXCEPT !.pc = IF container = "loading" THEN "waitLoad" ELSE "waitLoadForever"]

Containers == {"found", "loading", "loaded"}

\* Mutant: a missing document or frame ends the sequence without the log line.
lookups_Silent(task, doc, frameEl, found, container) ==
    LET t1 == Did(task, <<"lookup_doc", "lookup_iframe">>)
    IN  IF ~doc \/ frameEl # "iframe"
        THEN Return(t1, "notReady")
        ELSE IF variant = "listener"
        THEN getViewerContainer(
                 [Did(t1, <<"lookup_controls">>) EXCEPT !.controls = found], container)
        ELSE getViewerContainer(t1, container)

\* addListeners from the document lookup down to `await getViewerContainer`.
\* doc: reader._iframeWindow.document exists; frameEl: what the iframe selector
\* matched; found: the controls present; container: see getViewerContainer.
lookups(task, doc, frameEl, found, container) ==
    LET t1 == Did(task, <<"lookup_doc", "lookup_iframe">>)
    IN  IF ~doc \/ frameEl # "iframe"
        THEN Return(Log(t1, "couldn't attach styles; tab not ready"), "notReady")
        ELSE IF variant = "listener"
        THEN getViewerContainer(
                 [Did(t1, <<"lookup_controls">>) EXCEPT !.controls = found], container)
        ELSE getViewerContainer(t1, container)

\* Mutant: reader._initPromise is not awaited; the lookups follow at once.
resumeAfterWaitForReader_NoAwaitInit(task, how) ==
    IF how = "rejected" THEN Throw(task)
    ELSE lookups(Did(task, <<"usable_resolved">>), TRUE, "iframe", Controls, "found")

\* await reader._waitForReader() resumes; await reader._initPromise begins.
resumeAfterWaitForReader(task, how) ==
    IF how = "rejected" THEN Throw(task)
    ELSE [Did(task, <<"usable_resolved", "await_init">>) EXCEPT !.pc = "waitInit"]

\* The promise of reader._waitForReader() is settled (it rejects when the
\* reader's window never appears) and the task awaiting it resumes.
AfterWaitForReader(t, how) ==
    /\ t \in DOMAIN tasks
    /\ tasks[t].pc = "waitReader"
    /\ usable[tasks[t].s] \in {"pending", how}
    /\ usable' = [usable EXCEPT ![tasks[t].s] = how]
    /\ tasks' = [tasks EXCEPT ![t] = resumeAfterWaitForReader(@, how)]
    /\ UNCHANGED <<variant, rtype, hostListeners, init, listeners,
                   overrides, timers, viewer, hostLog, lastNav, lastCenter>>

\* await reader._initPromise resumes: the lookups down to the next await.
resumeAfterInit(task, how, doc, frameEl, found, container) ==
    IF how = "rejected" THEN Throw(task)
    ELSE lookups(Did(task, <<"init_resolved">>), doc, frameEl, found, container)

FrameEls == {"absent", "iframe", "other"}

\* reader._initPromise is settled and the task awaiting it resumes.
AfterInit(t, how) ==
    /\ t \in DOMAIN tasks
    /\ tasks[t].pc = "waitInit"
    /\ init[tasks[t].s] \in {"pending", how}
    /\ init' = [init EXCEPT ![tasks[t].s] = how]
    /\ \E doc \in BOOLEAN, frameEl \in FrameEls, found \in ControlSets,
          container \in Containers :
          \* only a pdf reader's document holds the pdf viewer's frame
          /\ rtype[tasks[t].s] # "pdf" => frameEl = "absent"
          /\ tasks' = [tasks EXCEPT ![t] =
                 resumeAfterInit(@, how, doc, frameEl, found, container)]
    /\ UNCHANGED <<variant, rtype, hostListeners, usable, listeners,
                   overrides, timers, viewer, hostLog, lastNav, lastCenter>>


\* What the override variant finds behind reader._internalReader._lastView:
\*   "ok"         the view, its PDFViewerApplication, pdfViewer and eventBus
\*   "undefined"  _iframeWindow, pdfViewer or eventBus is undefined
\*   "throws"     _internalReader, _lastView or PDFViewerApplication is
\*                undefined: reading a property of it is a TypeError
ViewLookups == {"ok", "undefined", "throws"}

\* addListeners after `await Plugin.getViewerContainer(iframe)`.
resumeAfterViewer(task, container, view) ==
    IF variant = "listener"
    THEN IF container # "found" THEN Return(task, "noViewer")
         ELSE Return(Log(Did(task, <<"install">>), "added page listeners"), "attached")
    ELSE LET t1 == Did(task, <<"lookup_view">>)
         IN  IF view = "throws" THEN Throw(t1)
             ELSE IF container # "found" \/ view = "undefined" THEN Return(t1, "noViewer")
             ELSE Return(Log(Did(t1, <<"install">>), "added page listeners"), "attached")

\* The task ids of set W, ascending, as a sequence.
RECURSIVE Ascending(_)
Ascending(W) ==
    IF W = {} THEN <<>>
    ELSE LET m == CHOOSE x \in W : \A y \in W : x <= y
         IN  <<m>> \o Ascending(W \ {m})

\* Mutant: the handlers are added to the controls of every Surface.
addEventListeners_Everywhere(W, newTasks) ==
    [s \in Surfaces |-> [c \in Controls |->
        listeners[s][c] \o
        Ascending({t \in W : /\ variant = "listener"
                             /\ newTasks[t].outcome = "attached"
                             /\ c \in newTasks[t].controls})]]

\* previous?.addEventListener('click', handler) ...: each task of W that
\* installs adds its own handler closure to the controls it found.
addEventListeners(W, newTasks) ==
    [s \in Surfaces |-> [c \in Controls |->
        listeners[s][c] \o
        Ascending({t \in W : /\ variant = "listener"
                             /\ newTasks[t].outcome = "attached"
                             /\ newTasks[t].s = s
                             /\ c \in newTasks[t].controls})]]

\* lastView.navigateBack = () => {...} ...: the five functions are assigned.
assignOverrides(W, newTasks) ==
    [s \in Surfaces |-> [op \in OverrideOps |->
        LET inst == {t \in W : /\ variant = "override"
                               /\ newTasks[t].outcome = "attached"
                               /\ newTasks[t].s = s}
        IN  IF inst = {} THEN overrides[s][op]
            ELSE CHOOSE x \in inst : \A y \in inst : y <= x]]

\* The promise of getViewerContainer was resolved at once: addListeners resumes.
AfterViewer(t) ==
    /\ t \in DOMAIN tasks
    /\ tasks[t].pc = "viewerResolved"
    /\ \E view \in ViewLookups :
          LET newTasks == [tasks EXCEPT ![t] = resumeAfterViewer(@, "found", view)]
          IN  /\ tasks' = newTasks
              /\ listeners' = addEventListeners({t}, newTasks)
              /\ overrides' = assignOverrides({t}, newTasks)
    /\ UNCHANGED <<variant, rtype, hostListeners, usable, init, timers,
                   viewer, hostLog, lastNav, lastCenter>>

\* The load listener of getViewerContainer: the second query of #viewerContainer.
onLoad(task, container) ==
    Did(task, <<"load", "lookup_viewer",
                IF container = "found" THEN "viewer_found" ELSE "viewer_missing">>)

\* The iframe's load event: every load listener queries #viewerContainer again
\* and resolves its promise; the addListeners calls waiting on them resume.
FrameLoad(s) ==
    /\ \E t \in DOMAIN tasks : tasks[t].s = s /\ tasks[t].pc = "waitLoad"
    /\ \E container \in {"found", "loaded"}, view \in ViewLookups :
          LET W == {t \in DOMAIN tasks : tasks[t].s = s /\ tasks[t].pc = "waitLoad"}
              newTasks == [t \in DOMAIN tasks |->
                              IF t \in W
                              THEN resumeAfterViewer(onLoad(tasks[t], container),
                                                     container, view)
                              ELSE tasks[t]]
          IN  /\ tasks' = newTasks
              /\ listeners' = addEventListeners(W, newTasks)
              /\ overrides' = assignOverrides(W, newTasks)
    /\ UNCHANGED <<variant, rtype, hostListeners, usable, init, timers,
                   viewer, hostLog, lastNav, lastCenter>>

\* ------------------------------------------------------------- navigation
\* The control a navigation of this kind goes through in the listener variant
\* ("" when the listener variant watches none for it).
ControlOf(kind) ==
    CASE kind = "previous"   -> "previous"
      [] kind = "next"       -> "next"
      [] kind = "back"       -> "back"
      [] kind = "pageNumber" -> "pageInput"
      [] OTHER               -> ""

\* The view function a navigation of this kind calls in the override variant
\* ("" when none of the five replaced functions serves it).
OpOf(kind) ==
    CASE kind = "back"     -> "navigateBack"
      [] kind = "previous" -> "navigateToPreviousPage"
      [] kind = "next"     -> "navigateToNextPage"
      [] kind = "first"    -> "navigateToFirstPage"
      [] kind = "last"     -> "navigateToLastPage"
      [] OTHER             -> ""

\* The viewer's own navigation: it scrolls to the top of page k.
viewerNavigate(v, k) == [v EXCEPT !.scrollTop2 = 2 * v.pages[k].offsetTop]

\* Mutant: the handler sets no timeout.
handler_NoTimeout(queue, t) == queue

\* The handler of the listener variant: setTimeout(() => centerCurrentPage(viewer), 0)
handler(queue, t) == queue \o <<t>>

RECURSIVE handlers(_, _)
handlers(queue, ls) ==
    IF ls = <<>> THEN queue ELSE handlers(handler(queue, Head(ls)), Tail(ls))

\* Mutant: the wrapper centers first and calls the viewer's primitive after.
navigateWrapper_CenterFirst(v, k) == viewerNavigate(centerCurrentPage(v), k)

\* A replaced view function of the override variant, e.g.
\*   lastView.navigateToNextPage = () => { pdfViewer.nextPage(); this.centerCurrentPage(viewer) }
\* the viewer's primitive, then centerCurrentPage on what it left.
navigateWrapper(v, k) == centerCurrentPage(viewerNavigate(v, k))

\* A navigation action of `kind` on Surface s, landing on page k.
Navigate(s, kind, k) ==
    /\ k \in 1..Len(viewer[s].pages)
    /\ IF variant = "override"
       THEN LET op == OpOf(kind)
                wrapped == op # "" /\ overrides[s][op] # 0
                moved == viewerNavigate(viewer[s], k)
            IN  /\ viewer' = [viewer EXCEPT ![s] =
                                 IF wrapped THEN navigateWrapper(@, k) ELSE moved]
                /\ lastCenter' = IF wrapped THEN centerRecord(s, moved) ELSE lastCenter
                /\ lastNav' = [s |-> s, kind |-> kind,
                               sync |-> IF wrapped THEN 1 ELSE 0, sched |-> 0]
                /\ UNCHANGED timers
       ELSE LET c == ControlOf(kind)
                ls == IF c = "" THEN <<>> ELSE listeners[s][c]
            IN  /\ Len(timers) + Len(ls) <= MaxTimers
                /\ viewer' = [viewer EXCEPT ![s] = viewerNavigate(@, k)]
                /\ timers' = handlers(timers, ls)
                /\ lastNav' = [s |-> s, kind |-> kind, sync |-> 0, sched |-> Len(ls)]
                /\ UNCHANGED lastCenter
    /\ UNCHANGED <<variant, rtype, hostListeners, usable, init, tasks,
                   listeners, overrides, hostLog>>

\* A timeout set by a handler runs: this.centerCurrentPage(viewer), on the
\* viewer its task found.
TimerFire ==
    /\ timers # <<>>
    /\ LET s == tasks[Head(timers)].s
       IN  /\ viewer' = [viewer EXCEPT ![s] = centerCurrentPage(@)]
           /\ lastCenter' = centerRecord(s, viewer[s])
    /\ timers' = Tail(timers)
    /\ UNCHANGED <<variant, rtype, hostListeners, usable, init, tasks,
                   listeners, overrides, hostLog, lastNav>>

Settled == {"resolved", "rejected"}

Next ==
    \/ Startup
    \/ Shutdown
    \/ \E s \in Surfaces : RenderToolbar(s)
    \/ \E t \in 1..MaxTasks, how \in Settled : AfterWaitForReader(t, how)
    \/ \E t \in 1..MaxTasks, how \in Settled : AfterInit(t, how)
    \/ \E t \in 1..MaxTasks : AfterViewer(t)
    \/ \E s \in Surfaces : FrameLoad(s)
    \/ \E s \in Surfaces, kind \in NavKinds, k \in 1..Len(ProtoViewer.pages) :
          Navigate(s, kind, k)
    \/ TimerFire

Spec == Init /\ [][Next]_vars

\* The attachment protocol alone: the lifecycle and the attachment sequences.
\* Navigate and TimerFire leave hostListeners, usable, init, tasks, listeners
\* and overrides unchanged, so these variables take the same values here as
\* under Spec.
NextAttach ==
    \/ Startup
    \/ Shutdown
    \/ \E s \in Surfaces : RenderToolbar(s)
    \/ \E t \in 1..MaxTasks, how \in Settled : AfterWaitForReader(t, how)
    \/ \E t \in 1..MaxTasks, how \in Settled : AfterInit(t, how)
    \/ \E t \in 1..MaxTasks : AfterViewer(t)
    \/ \E s \in Surfaces : FrameLoad(s)

AttachSpec == Init /\ [][NextAttach]_vars


\* ------------------------------------------------ the geometry specification
\* centerCurrentPage, getCurrentPage and getScrollTarget applied to viewers and
\* page lists drawn from bounded sets (the three are the same text in both
\* variants).
GeomViewports == {[clientWidth |-> 800, clientHeight |-> 600],
                  [clientWidth |-> 500, clientHeight |-> 301]}

GeomTops == {0, 1195, 1200, 1205}

\* The last two are the left and the right page of a two-page spread.
GeomShapes == {[offsetLeft |-> 0,   clientWidth |-> 800,  clientHeight |-> 600],
               [offsetLeft |-> 200, clientWidth |-> 400,  clientHeight |-> 300],
               [offsetLeft |-> 0,   clientWidth |-> 1000, clientHeight |-> 901],
               [offsetLeft |-> 0,   clientWidth |-> 400,  clientHeight |-> 310],
               [offsetLeft |-> 400, clientWidth |-> 400,  clientHeight |-> 300]}

GeomPages == {[offsetTop |-> top, offsetLeft |-> sh.offsetLeft,
               clientWidth |-> sh.clientWidth, clientHeight |-> sh.clientHeight] :
              top \in GeomTops, sh \in GeomShapes}

GeomPageLists == UNION {[1..n -> GeomPages] : n \in 0..MaxPages}

GeomScrollTops2 == {0, 2400, 2401, 2410}

InitGeom ==
    /\ variant = "listener"
    /\ rtype = [s \in Surfaces |-> "pdf"]
    /\ hostListeners = 0
    /\ usable = [s \in Surfaces |-> "pending"]
    /\ init = [s \in Surfaces |-> "pending"]
    /\ tasks = <<>>
    /\ listeners = [s \in Surfaces |-> [c \in Controls |-> <<>>]]
    /\ overrides = [s \in Surfaces |-> [op \in OverrideOps |-> 0]]
    /\ timers = <<>>
    /\ \E vp \in GeomViewports, pages \in GeomPageLists :
          viewer = [s \in Surfaces |->
                       [clientWidth |-> vp.clientWidth, clientHeight |-> vp.clientHeight,
                        scrollTop2 |-> 0, scrollLeft2 |-> 0, pages |-> pages]]
    /\ hostLog = ""
    /\ lastNav = NoNav
    /\ lastCenter = NoCenter

\* this.centerCurrentPage(viewer) on the viewer of the first Surface.
GeomCenter ==
    /\ viewer' = [viewer EXCEPT ![1] = centerCurrentPage(@)]
    /\ lastCenter' = centerRecord(1, viewer[1])
    /\ UNCHANGED <<variant, rtype, hostListeners, usable, init, tasks, listeners,
                   overrides, timers, hostLog, lastNav>>

\* The viewer is scrolled (by the user, or by its own navigation).
GeomScroll(top2) ==
    /\ viewer[1].scrollTop2 # top2
    /\ viewer' = [viewer EXCEPT ![1].scrollTop2 = top2]
    /\ UNCHANGED <<variant, rtype, hostListeners, usable, init, tasks, listeners,
                   overrides, timers, hostLog, lastNav, lastCenter>>

NextGeom ==
    \/ GeomCenter
    \/ \E top2 \in GeomScrollTops2 : GeomScroll(top2)

GeomSpec == InitGeom /\ [][NextGeom]_vars


\* ------------------------------------------------------------------ claims
IsAttached(s) == \E t \in DOMAIN tasks : tasks[t].s = s /\ tasks[t].outcome = "attached"

Count(sq, x) == Cardinality({i \in DOMAIN sq : sq[i] = x})

\* The first index of x in sq, 0 when it is not there.
IndexOf(sq, x) ==
    IF \E i \in DOMAIN sq : sq[i] = x
    THEN CHOOSE i \in DOMAIN sq : sq[i] = x /\ \A j \in 1..(i - 1) : sq[j] # x
    ELSE 0

\* C1: attachment is idempotent: however often the attachment sequence ran for
\* a Surface, no control of it holds more than one handler, and one navigation
\* action triggers at most one centerCurrentPage call. (Stated for the states
\* with a single registration of the handler, so that a violation does not
\* rest on the doubled registration of C6.)
C1_AttachOnce ==
    hostListeners = 1 =>
        /\ \A s \in Surfaces, c \in Controls : Len(listeners[s][c]) <= 1
        /\ lastNav.sync + lastNav.sched <= 1

\* C2: on an attached Surface a navigation action of any kind (next, previous,
\* first, last, back, page-number entry) triggers centerCurrentPage, run at once
\* or scheduled, under either hooking strategy.
C2_EveryNavigationCenters ==
    [][\A s \in Surfaces, kind \in NavKinds, k \in 1..Len(ProtoViewer.pages) :
          (IsAttached(s) /\ Navigate(s, kind, k)) =>
              lastNav'.sync + lastNav'.sched >= 1]_vars

\* C3: a render notification for a Surface that is not a pdf reader starts no
\* attachment sequence: no task exists for such a Surface.
C3_NonPdfIgnored ==
    \A t \in DOMAIN tasks : rtype[tasks[t].s] = "pdf"

\* C4: when #viewerContainer is missing at the first query and at the load
\* event, the attempt halts without an exception, with a diagnostic logged
\* for the failure and with nothing installed.
C4_MissingViewerHalts ==
    \A t \in DOMAIN tasks :
        Count(tasks[t].trace, "viewer_missing") = 2 =>
            /\ tasks[t].pc = "done"
            /\ Len(tasks[t].logs) >= 2
            /\ \A s \in Surfaces :
                  /\ \A c \in Controls : Count(listeners[s][c], t) = 0
                  /\ \A op \in OverrideOps : overrides[s][op] # t

\* C5: no attachment sequence ends with a thrown exception (a rejected promise
\* nobody handles), whatever the readiness signals and the lookups give.
C5_NothingThrown ==
    \A t \in DOMAIN tasks : tasks[t].pc # "rejected"

\* C6: the host holds at most one registration of the handler, exactly one
\* after a startup and none after a shutdown.
C6_OneRegistration ==
    /\ hostListeners <= 1
    /\ hostLog = "registering renderToolbar listener" => hostListeners = 1
    /\ hostLog = "unregistering renderToolbar listener" => hostListeners = 0

Lookups == {"lookup_doc", "lookup_iframe", "lookup_controls", "lookup_viewer",
            "lookup_view", "install"}

\* C7: in every attachment sequence the usable signal is awaited first and the
\* initialization signal second, and every lookup and every installation comes
\* after both have resolved.
C7_ReadinessFirst ==
    \A t \in DOMAIN tasks :
        LET tr == tasks[t].trace
        IN  /\ tr[1] = "await_usable"
            /\ \A i \in DOMAIN tr :
                  /\ tr[i] = "await_init" => i > 1 /\ tr[i - 1] = "usable_resolved"
                  /\ tr[i] = "init_resolved" => IndexOf(tr, "await_init") \in 1..(i - 1)
                  /\ tr[i] \in Lookups =>
                        /\ IndexOf(tr, "usable_resolved") \in 1..(i - 1)
                        /\ IndexOf(tr, "init_resolved") \in 1..(i - 1)
                        /\ IndexOf(tr, "usable_resolved") < IndexOf(tr, "init_resolved")

\* A sequence that went through both awaits and installed its hooks.
C7_Witness ==
    \E t \in DOMAIN tasks :
        tasks[t].outcome = "attached" /\ Count(tasks[t].trace, "install") = 1

\* The pages within `slack2` half units of the position the latest
\* centerCurrentPage call found the viewer at.
Near(slack2, strict) ==
    LET pages == viewer[lastCenter.viewer].pages
    IN  {i \in 1..Len(pages) :
            LET d == Abs(2 * pages[i].offsetTop - lastCenter.before.top2)
            IN  IF strict THEN d < slack2 ELSE d <= slack2}

\* C8 as amended: when some page's offsetTop differs from scrollTop by strictly
\* less than 5 units, getCurrentPage returns such a page, the first in
\* document order.
C8_FirstPageInTolerance ==
    (lastCenter.viewer # 0 /\ Near(10, TRUE) # {}) =>
        /\ lastCenter.page \in Near(10, TRUE)
        /\ \A j \in Near(10, TRUE) : lastCenter.page <= j

\* Two pages within the tolerance, the first of them returned.
C8_Witness ==
    /\ lastCenter.viewer # 0
    /\ Cardinality(Near(10, TRUE)) >= 2
    /\ lastCenter.page = 1

\* C8 as stated: a page whose offsetTop is within 5 units of scrollTop (5
\* included) is returned, the first in document order.
C8_Original ==
    (lastCenter.viewer # 0 /\ Near(10, FALSE) # {}) =>
        /\ lastCenter.page \in Near(10, FALSE)
        /\ \A j \in Near(10, FALSE) : lastCenter.page <= j

\* C9: when no page is within the tolerance, centerCurrentPage finds none,
\* makes no scrollTo call, leaves the scroll position as it was and logs the
\* diagnostic.
C9_NoPageNoScroll ==
    (lastCenter.viewer # 0 /\ Near(10, TRUE) = {}) =>
        /\ lastCenter.page = 0
        /\ lastCenter.scrolls = 0
        /\ lastCenter.after = lastCenter.before
        /\ lastCenter.log = "couldn't identify current page"

\* A call on a viewer that has pages, none within the tolerance, scrolled away
\* from the origin.
C9_Witness ==
    /\ lastCenter.viewer # 0
    /\ viewer[lastCenter.viewer].pages # <<>>
    /\ Near(10, TRUE) = {}
    /\ lastCenter.before.top2 # 0
    /\ lastCenter.scrolls = 0

ScenarioViewer == [clientWidth |-> 800, clientHeight |-> 600]

\* C10: the scroll target is top = P.offsetTop + (P.height - V.height)/2 and
\* left = P.offsetLeft + (P.width - V.width)/2, negative slack included, and
\* the two scenarios give {top: 1200, left: 0} and left = 0.
C10_ScrollTarget ==
    /\ lastCenter.page # 0 =>
          LET V == viewer[lastCenter.viewer]
              P == V.pages[lastCenter.page]
          IN  /\ lastCenter.target.top2 - 2 * P.offsetTop = P.clientHeight - V.clientHeight
              /\ lastCenter.target.left2 - 2 * P.offsetLeft = P.clientWidth - V.clientWidth
    /\ getScrollTarget(ScenarioViewer,
                       [offsetTop |-> 1200, offsetLeft |-> 0,
                        clientWidth |-> 800, clientHeight |-> 600])
          = [top2 |-> 2400, left2 |-> 0]
    /\ getScrollTarget(ScenarioViewer,
                       [offsetTop |-> 0, offsetLeft |-> 200,
                        clientWidth |-> 400, clientHeight |-> 300]).left2 = 0

\* A page smaller than the viewport was centered: the slack is negative.
C10_Witness ==
    /\ lastCenter.page # 0
    /\ LET V == viewer[lastCenter.viewer]
           P == V.pages[lastCenter.page]
       IN  /\ P.clientHeight < V.clientHeight
           /\ P.clientWidth < V.clientWidth
           /\ lastCenter.target.left2 < 2 * P.offsetLeft

\* C11: in the override variant, on an attached Surface, each of the five
\* replaced operations (back, previous, next, first, last) is served by a
\* wrapper; one call of it makes exactly one centerCurrentPage call, and that
\* call finds the viewer where the primitive left it (at the top of the page
\* navigated to) and leaves the viewer where the call ends.
C11_PrimitiveThenCenter ==
    [][\A s \in Surfaces, kind \in NavKinds, k \in 1..Len(ProtoViewer.pages) :
          (/\ variant = "override"
           /\ IsAttached(s)
           /\ OpOf(kind) # ""
           /\ Navigate(s, kind, k)) =>
              /\ overrides[s][OpOf(kind)] # 0
              /\ lastNav'.sync = 1
              /\ lastNav'.sched = 0
              /\ lastCenter'.viewer = s
              /\ lastCenter'.before.top2 = 2 * viewer[s].pages[k].offsetTop
              /\ viewer'[s].scrollTop2 = lastCenter'.after.top2
              /\ viewer'[s].scrollLeft2 = lastCenter'.after.left2]_vars

\* A wrapped first-page navigation whose centering moved the viewer away from
\* the position the primitive left it at.
C11_Witness ==
    /\ variant = "override"
    /\ lastNav.kind = "first"
    /\ lastNav.sync = 1
    /\ lastCenter.viewer = lastNav.s
    /\ lastCenter.after.top2 # lastCenter.before.top2
    /\ viewer[lastNav.s].scrollTop2 = lastCenter.after.top2

\* C12: in the listener variant a click on previous, next or back and a change
\* of the page-number input run no centerCurrentPage inside the event: every
\* handler on the control queues one timeout, the viewer is left where its own
\* handling put it; the centering runs when the timeout fires and reads the
\* scroll position of that moment.
C12_DeferredCentering ==
    [][variant = "listener" =>
          /\ \A s \in Surfaces, kind \in NavKinds, k \in 1..Len(ProtoViewer.pages) :
                (lastNav'.s = s /\ lastNav'.kind = kind /\ Navigate(s, kind, k)) =>
                    /\ lastNav'.sync = 0
                    /\ lastCenter' = lastCenter
                    /\ viewer'[s] = viewerNavigate(viewer[s], k)
                    /\ ControlOf(kind) # "" =>
                          timers' = timers \o listeners[s][ControlOf(kind)]
          /\ (Len(timers') < Len(timers) /\ TimerFire) =>
                LET s == tasks[Head(timers)].s
                IN  /\ lastCenter'.viewer = s
                    /\ lastCenter'.before = [top2 |-> viewer[s].scrollTop2,
                                             left2 |-> viewer[s].scrollLeft2]
                    /\ viewer'[s].scrollTop2 = lastCenter'.after.top2]_vars

\* A change of the page-number input queued a timeout, and the timeout has
\* run and centered the page.
C12_Witness ==
    /\ variant = "listener"
    /\ lastNav.kind = "pageNumber"
    /\ lastNav.sched = 1
    /\ timers = <<>>
    /\ lastCenter.viewer = lastNav.s
    /\ lastCenter.scrolls = 1
    /\ viewer[lastNav.s].scrollTop2 = lastCenter.after.top2

Terminated(t) == tasks[t].pc \in {"done", "rejected"}

\* The steps that resume attachment sequence t from where it is suspended.
Advance(t) ==
    \/ \E how \in Settled : AfterWaitForReader(t, how)
    \/ \E how \in Settled : AfterInit(t, how)
    \/ AfterViewer(t)
    \/ tasks[t].pc = "waitLoad" /\ FrameLoad(tasks[t].s)

\* C13: every attachment sequence terminates: one that has not ended (hooks
\* installed, abandoned, or thrown) can still be resumed by some step; none is
\* suspended at a wait that nothing will ever end.
C13_SequencesTerminate ==
    \A t \in DOMAIN tasks : Terminated(t) \/ ENABLED Advance(t)

\* The hooks task t installed: handlers on controls, replaced view functions.
HooksOf(t) ==
    {<<s, c>> \in Surfaces \X Controls : Count(listeners[s][c], t) > 0}
    \cup {<<s, op>> \in Surfaces \X OverrideOps : overrides[s][op] = t}

\* C14: a sequence that stopped at the document/frame lookup (document or
\* frame missing, or the element matched is no frame) has ended without an
\* exception, has logged the diagnostic as its last message, made no further
\* lookup, installed no hook and left no timeout behind.
C14_NotReadyHalts ==
    \A t \in DOMAIN tasks :
        LET tr == tasks[t].trace
        IN  (tr[Len(tr)] = "lookup_iframe" \/ tasks[t].outcome = "notReady") =>
                /\ tasks[t].pc = "done"
                /\ tasks[t].outcome = "notReady"
                /\ tr[Len(tr)] = "lookup_iframe"
                /\ tasks[t].logs = <<"adding page listeners",
                                     "couldn't attach styles; tab not ready">>
                /\ HooksOf(t) = {}
                /\ \A i \in DOMAIN timers : timers[i] # t

\* A Surface whose first sequence stopped at the document/frame lookup and
\* whose later sequence, started by a later render notification, attached.
C14_Witness ==
    \E t1, t2 \in DOMAIN tasks :
        /\ t1 < t2
        /\ tasks[t1].s = tasks[t2].s
        /\ tasks[t1].outcome = "notReady"
        /\ tasks[t2].outcome = "attached"
        /\ HooksOf(t2) # {}
        /\ hostListeners = 1

\* C15: in the listener variant a sequence that looked the controls up and
\* found one of them absent throws nothing, installs no handler and does not
\* end as attached; when it ends with the viewer found, its last message is a
\* diagnostic for the missing control, not the success message.
C15_MissingControlHalts ==
    \A t \in DOMAIN tasks :
        (/\ variant = "listener"
         /\ Count(tasks[t].trace, "lookup_controls") = 1
         /\ tasks[t].controls # Controls) =>
            /\ tasks[t].pc # "rejected"
            /\ tasks[t].outcome # "attached"
            /\ HooksOf(t) = {}
            /\ (Terminated(t) /\ Count(tasks[t].trace, "viewer_found") = 1) =>
                  /\ Len(tasks[t].logs) >= 2
                  /\ tasks[t].logs[Len(tasks[t].logs)] # "added page listeners"

AfterShutdown ==
    hostListeners = 0 /\ hostLog = "unregistering renderToolbar listener"

\* The hook of Surface s that a navigation of `kind` goes through is installed.
Hooked(s, kind) ==
    IF variant = "override"
    THEN OpOf(kind) # "" /\ overrides[s][OpOf(kind)] # 0
    ELSE ControlOf(kind) # "" /\ listeners[s][ControlOf(kind)] # <<>>

\* C16: shutdown takes the host registration away and nothing else: the
\* handlers on the controls, the replaced view functions and the pending
\* timeouts are as before it; and after a shutdown a navigation through an
\* installed hook still triggers centerCurrentPage.
C16_ShutdownKeepsHooks ==
    [][/\ Shutdown =>
            /\ hostListeners' = 0
            /\ listeners' = listeners
            /\ overrides' = overrides
            /\ timers' = timers
       /\ AfterShutdown =>
            \A s \in Surfaces, kind \in NavKinds, k \in 1..Len(ProtoViewer.pages) :
                (/\ Hooked(s, kind)
                 /\ lastNav'.s = s /\ lastNav'.kind = kind
                 /\ Navigate(s, kind, k)) =>
                    lastNav'.sync + lastNav'.sched >= 1]_vars

\* After a shutdown, with no registration left, a Surface has its hooks and a
\* navigation on it triggers centerCurrentPage.
C16_Witness ==
    /\ AfterShutdown
    /\ \E s \in Surfaces :
          /\ IsAttached(s)
          /\ Hooked(s, "next")
          /\ ENABLED (Navigate(s, "next", 1) /\ lastNav'.sync + lastNav'.sched >= 1)

\* A step changes what belongs to Surface s: its readiness signals, its
\* hooks, its viewer, or the attachment sequences started for it.
Changed(s) ==
    \/ usable'[s] # usable[s]
    \/ init'[s] # init[s]
    \/ listeners'[s] # listeners[s]
    \/ overrides'[s] # overrides[s]
    \/ viewer'[s] # viewer[s]
    \/ \E t \in DOMAIN tasks' :
          tasks'[t].s = s /\ (t \notin DOMAIN tasks \/ tasks'[t] # tasks[t])

\* Every installed hook was installed by a sequence of the Surface it is on.
HooksBelong ==
    \A s \in Surfaces :
        /\ \A c \in Controls : \A i \in DOMAIN listeners[s][c] :
              tasks[listeners[s][c][i]].s = s
        /\ \A op \in OverrideOps :
              overrides[s][op] # 0 => tasks[overrides[s][op]].s = s

\* Sequence t, suspended, can take its next step toward attachment when the
\* signals of its own Surface allow it, whatever the other Surfaces are at.
CanProceed(t) ==
    LET s == tasks[t].s
    IN  /\ (tasks[t].pc = "waitReader" /\ usable[s] # "rejected") =>
              ENABLED (AfterWaitForReader(t, "resolved") /\ tasks'[t].pc = "waitInit")
        /\ (tasks[t].pc = "waitInit" /\ init[s] # "rejected" /\ rtype[s] = "pdf") =>
              ENABLED (AfterInit(t, "resolved") /\ tasks'[t].pc = "viewerResolved")
        /\ tasks[t].pc = "viewerResolved" =>
              ENABLED (AfterViewer(t) /\ tasks'[t].outcome = "attached")
        /\ tasks[t].pc = "waitLoad" =>
              ENABLED (FrameLoad(s) /\ tasks'[t].outcome = "attached")

C17_Step ==
    /\ \A s1, s2 \in Surfaces :
          s1 < s2 => ~(Changed(s1) /\ Changed(s2))
    \* the timeouts a navigation queues are those of handlers of its Surface
    /\ \A i \in (Len(timers) + 1)..Len(timers') : tasks[timers'[i]].s = lastNav'.s
    \* a centering is of the viewer of the Surface whose handler set the
    \* timeout (listener) or whose view function was called (override)
    /\ lastCenter' # lastCenter =>
          /\ lastCenter'.viewer =
                IF variant = "listener" THEN tasks[Head(timers)].s ELSE lastNav'.s
          /\ \A s \in Surfaces : s # lastCenter'.viewer => viewer'[s] = viewer[s]

\* C17: the Surfaces are independent. A suspended sequence can always take
\* its next step toward attachment, whatever happened to the sequences of the
\* other Surfaces; a step changes the signals, sequences, hooks and viewer of
\* one Surface at most; every hook was installed by a sequence of its own
\* Surface, and the centering a navigation on a Surface runs or schedules is
\* of that Surface's viewer.
C17_SurfacesIndependent ==
    /\ [](HooksBelong /\ \A t \in DOMAIN tasks : CanProceed(t))
    /\ [][C17_Step]_vars

\* The sequence of one Surface is suspended for good at the frame-load wait,
\* that of another Surface, started later, has attached.
C17_Witness ==
    \E t1, t2 \in DOMAIN tasks :
        /\ t1 < t2
        /\ tasks[t1].s # tasks[t2].s
        /\ tasks[t1].pc = "waitLoadForever"
        /\ tasks[t2].outcome = "attached"
        /\ HooksOf(t2) # {}

\* C18: once shutdown has run (and no startup since), no step installs a
\* handler on a control or replaces a view function, not even the resumption
\* of a sequence that was suspended when shutdown ran.
C18_NoInstallAfterShutdown ==
    [][AfterShutdown => (listeners' = listeners /\ overrides' = overrides)]_vars

\* The boxes of pages p and q share no point.
Apart(p, q) ==
    \/ p.offsetTop + p.clientHeight <= q.offsetTop
    \/ q.offsetTop + q.clientHeight <= p.offsetTop
    \/ p.offsetLeft + p.clientWidth <= q.offsetLeft
    \/ q.offsetLeft + q.clientWidth <= p.offsetLeft

\* A layout a viewer can show: no two pages overlap, and the scroll position
\* is within the scrollable range.
Layout(v) ==
    /\ \A i, j \in DOMAIN v.pages : i < j => Apart(v.pages[i], v.pages[j])
    /\ v.scrollTop2 <= 2 * Max(0, extent(v.pages, 1, TRUE) - v.clientHeight)
    /\ v.scrollLeft2 <= 2 * Max(0, extent(v.pages, 1, FALSE) - v.clientWidth)

\* The viewer of the first Surface is where the latest centerCurrentPage call
\* left it.
JustCentered ==
    /\ lastCenter.viewer = 1
    /\ lastCenter.after = [top2 |-> viewer[1].scrollTop2, left2 |-> viewer[1].scrollLeft2]

\* C19: centerCurrentPage is idempotent on an unchanged layout: a call that
\* follows a call, with nothing scrolled in between, leaves the scroll
\* position where the first call left it.
C19_CenterIdempotent ==
    [][(Layout(viewer[1]) /\ JustCentered /\ GeomCenter) =>
          /\ viewer'[1].scrollTop2 = viewer[1].scrollTop2
          /\ viewer'[1].scrollLeft2 = viewer[1].scrollLeft2]_vars

====
